---- MODULE Spec2Model ----
(***************************************************************************)
(* A model of server.py: the Flask backend that stores the latest sensor   *)
(* snapshot of each device in latest.json, the contact e-mails of each     *)
(* device in contacts.json, and mails the contacts from a daemon thread    *)
(* when an ingested heart rate reaches HR_THRESHOLD.                       *)
(*                                                                         *)
(* Request handlers run concurrently (one per worker slot) and interleave  *)
(* at their accesses to the two files; every delivery thread interleaves   *)
(* with everything else at its SMTP steps.                                 *)
(***************************************************************************)
EXTENDS Integers, Sequences, FiniteSets, TLC

\* ------------------------------------------------------------------ bounds

\* Requests accepted in one run of the server, in each of the scenarios
\* checked: the store under concurrent requests, the alerts under concurrent
\* requests, requests handled one after the other, dispatches under
\* concurrent requests, manual notifications, deliveries in every
\* environment under concurrent requests and with the requests handled one
\* after the other.
StoreReqs == 3
AlertReqs == 2
SeqReqs == 3
DispatchReqs == 2
NotifyReqs == 2
MailReqs == 2
DeliveryReqs == 2

\* ------------------------------------------------------- program constants

HR_THRESHOLD == 85
SSL_PORT == 465
STARTTLS_PORT == 587

\* ------------------------------------------------------------- JSON values

\* A JSON scalar: null, a boolean, a non-negative integer or a string (the
\* string as its sequence of characters, so that float() can read it).
Null == [t |-> "null", n |-> 0, s |-> <<>>]
Bool(b) == [t |-> "bool", n |-> IF b THEN 1 ELSE 0, s |-> <<>>]
Num(n) == [t |-> "num", n |-> n, s |-> <<>>]
Str(s) == [t |-> "str", n |-> 0, s |-> s]

Digits == <<"0", "1", "2", "3", "4", "5", "6", "7", "8", "9">>

DigitValue(c) == (CHOOSE i \in 1..10 : Digits[i] = c) - 1

IsDigit(c) == \E i \in 1..10 : Digits[i] = c

RECURSIVE DecimalValue(_)
DecimalValue(s) ==
    IF s = <<>> THEN 0
    ELSE 10 * DecimalValue(SubSeq(s, 1, Len(s) - 1)) + DigitValue(s[Len(s)])

RECURSIVE DecimalDigits(_)
DecimalDigits(n) == IF n < 10 THEN 1 ELSE 1 + DecimalDigits(n \div 10)

\* float(x): [ok, v]. A number is itself, a boolean is 1 or 0, a string is
\* parsed (here: a non-empty run of decimal digits) and anything else in it
\* raises ValueError.
float(x) ==
    CASE x.t = "num" -> [ok |-> TRUE, v |-> x.n]
      [] x.t = "bool" -> [ok |-> TRUE, v |-> x.n]
      [] x.t = "str" ->
            IF x.s # <<>> /\ \A i \in 1..Len(x.s) : IsDigit(x.s[i])
            THEN [ok |-> TRUE, v |-> DecimalValue(x.s)]
            ELSE [ok |-> FALSE, v |-> 0]
      [] OTHER -> [ok |-> FALSE, v |-> 0]

\* Python truthiness of a scalar: bool(x).
Truthy(x) ==
    CASE x.t = "null" -> FALSE
      [] x.t = "bool" -> x.n = 1
      [] x.t = "num" -> x.n # 0
      [] x.t = "str" -> x.s # <<>>

\* dict.get(key, default) on a decoded JSON object.
Get(data, key, default) == IF key \in DOMAIN data THEN data[key] ELSE default

\* str(x) of a scalar, as a sequence of characters.
RECURSIVE DecimalText(_)
DecimalText(n) ==
    IF n < 10 THEN <<Digits[n + 1]>>
    ELSE DecimalText(n \div 10) \o <<Digits[(n % 10) + 1]>>

str(x) ==
    CASE x.t = "str" -> x.s
      [] x.t = "num" -> DecimalText(x.n)
      [] x.t = "null" -> <<"N", "o", "n", "e">>
      [] x.t = "bool" -> IF x.n = 1 THEN <<"T", "r", "u", "e">>
                         ELSE <<"F", "a", "l", "s", "e">>

\* The length of the text json.dump writes for a scalar.
ScalarLen(x) ==
    CASE x.t = "null" -> 4
      [] x.t = "bool" -> IF x.n = 1 THEN 4 ELSE 5
      [] x.t = "num" -> DecimalDigits(x.n)
      [] x.t = "str" -> Len(x.s) + 2

RECURSIVE SumOver(_, _)
SumOver(S, f) ==
    IF S = {} THEN 0
    ELSE LET x == CHOOSE y \in S : TRUE IN f[x] + SumOver(S \ {x}, f)

RECURSIVE SumSeq(_)
SumSeq(q) == IF q = <<>> THEN 0 ELSE Head(q) + SumSeq(Tail(q))

\* The scalars of a stored snapshot, in the order ingest() writes them.
SnapshotScalars(snap) ==
    <<snap.heart_rate, snap.acc.x, snap.acc.y, snap.acc.z, snap.gps.lat,
      snap.gps.lon, snap.timestamp, snap.stress_score, snap.stress_level,
      snap.spo2, snap.temperature, snap.movement, snap.emotion,
      snap.is_emergency>>

\* Length of json.dump(latest, f, indent=2): 288 characters of keys and
\* layout per snapshot besides its device key and its scalars.
LatestLen(doc) ==
    IF DOMAIN doc = {} THEN 2
    ELSE 4 + 2 * (Cardinality(DOMAIN doc) - 1)
         + SumOver(DOMAIN doc,
                   [d \in DOMAIN doc |->
                      288 + Len(d)
                      + SumSeq([i \in 1..14 |->
                                  ScalarLen(SnapshotScalars(doc[d])[i])])])

\* Length of json.dump of one e-mail list with indent=2, nested one level.
EmailsLen(l) ==
    IF l = <<>> THEN 2
    ELSE 5 + (Len(l) - 1) + SumSeq([i \in 1..Len(l) |-> Len(l[i]) + 7])

\* Length of json.dump(contacts, f, indent=2).
ContactsLen(doc) ==
    IF DOMAIN doc = {} THEN 2
    ELSE 4 + 2 * (Cardinality(DOMAIN doc) - 1)
         + SumOver(DOMAIN doc,
                   [d \in DOMAIN doc |-> 6 + Len(d) + EmailsLen(doc[d])])

\* ------------------------------------------------------------------- files

\* A file on disk: the document its bytes decode to (or no document when
\* they do not decode: an empty or overwritten-in-part file) and its length.
\* The empty document is the function with the empty domain, <<>>.
EmptyDoc == <<>>

FileOf(doc, len) == [ok |-> TRUE, doc |-> doc, len |-> len]

Undecodable(len) == [ok |-> FALSE, doc |-> EmptyDoc, len |-> len]

\* load_json: the decoded document, or the default when json.load raises
\* JSONDecodeError.
load_json(file, default) == IF file.ok THEN file.doc ELSE default

\* save_json, first half: open(path, "w") truncates the file.
OpenForWrite(file) == Undecodable(0)

\* save_json, second half: the buffered text is written at offset 0 when the
\* file is closed. Bytes another writer put beyond the end of this text stay
\* in the file, which then does not decode.
WriteText(file, doc, len) ==
    IF len >= file.len THEN FileOf(doc, len) ELSE Undecodable(file.len)

\* The mapping with key k set to v: contacts[k] = v, latest[k] = v.
Put(doc, k, v) == [x \in DOMAIN doc \cup {k} |-> IF x = k THEN v ELSE doc[x]]

\* A store that merges: a field the new snapshot has no value for keeps the
\* value of the snapshot stored before.
StoreSnapshotMerging(latest, device, snapshot) ==
    Put(latest, device,
        IF device \in DOMAIN latest
        THEN [snapshot EXCEPT
                !.stress_score = IF @ = Null THEN latest[device].stress_score ELSE @]
        ELSE snapshot)

\* latest[device] = {...}: the device's entry is replaced by the new snapshot.
StoreSnapshot(latest, device, snapshot) == Put(latest, device, snapshot)

\* A registry that appends the new list to the list saved before.
StoreContactsAppending(contacts, device, emails) ==
    Put(contacts, device, Get(contacts, device, <<>>) \o emails)

\* contacts[str(device_id)] = emails: the device's list is replaced.
StoreContacts(contacts, device, emails) == Put(contacts, device, emails)

\* ------------------------------------------------------------------ inputs

D1 == <<"d", "1">>
D2 == <<"d", "2">>
DeviceIds == {D1, D2}
DefaultDevice == <<"d", "e", "f", "a", "u", "l", "t">>

\* Request-handling threads of the server (Flask serves each request in a
\* thread of its own).
Workers == {"w1", "w2"}

\* What time.time() answers, in whole seconds.
Clock == {100}

\* An "emails" value of a request body: a JSON list of strings, or a value
\* that is no list (a string, null).
List(l) == [t |-> "list", l |-> l]
NoList(t) == [t |-> t, l |-> <<>>]

\* Heart rates sent by the devices: around the threshold, as a number and as
\* text, null, and text that is no number.
HeartRates ==
    {Num(HR_THRESHOLD - 1), Num(HR_THRESHOLD), Str(<<"8", "5">>),
     Str(<<"a", "b", "c">>), Null}

\* Bodies of POST /ingest: a device id, and a heart rate or none.
IngestBodies ==
    {[device_id |-> Str(d)] : d \in DeviceIds}
    \cup {[device_id |-> Str(d), heart_rate |-> hr] :
            d \in DeviceIds, hr \in HeartRates}

\* Bodies of POST /contacts/<device_id>.
ContactBodies ==
    {[emails |-> List(<<>>)], [emails |-> List(<<"a@x.com">>)],
     [emails |-> NoList("str")]}

\* Bodies of POST /notify.
NotifyBodies ==
    {[device_id |-> Str(d)] : d \in DeviceIds}
    \cup {[device_id |-> Str(D1), emails |-> e] :
            e \in {List(<<>>), List(<<"b@x.com">>), NoList("null")}}

\* The environment the process starts in: whether SMTP_USER and SMTP_PASS
\* are both set, and SMTP_PORT.
Configs == [creds : BOOLEAN, port : {SSL_PORT, STARTTLS_PORT, 25}]

\* ------------------------------------------------------------------- state

VARIABLES
    cfg,            \* SMTP_USER/SMTP_PASS present, SMTP_PORT
    latestFile,     \* latest.json
    contactsFile,   \* contacts.json
    nreq,           \* requests accepted so far
    pc,             \* where each worker is in its handler
    rid,            \* the number of the request each worker serves
    req,            \* that request: [kind, device, data]
    local,          \* the handler's local variables
    resp,           \* the response the worker returned last
    threads,        \* the delivery thread started for each request
    saved           \* history: what a completed save last put in each store
                    \* for each device, [latest, contacts]

vars ==
    <<cfg, latestFile, contactsFile, nreq, pc, rid, req, local, resp, threads,
      saved>>

NoReq == [kind |-> "none", device |-> <<>>, data |-> EmptyDoc]
NoLocal ==
    [doc |-> EmptyDoc, device |-> <<>>, contacts |-> <<>>, alert_sent |-> FALSE]
NoResp == [status |-> 0]

\* A delivery thread that has just been started, with its recipients. Its
\* log is history: the transport steps that succeeded so far, in order, and
\* "close" for the connection closed.
NewThread(to) ==
    [pc |-> "start", to |-> to, mode |-> "none", open |-> FALSE,
     sent |-> FALSE, success |-> FALSE, log |-> <<>>]

\* os.getenv with nothing set: no credentials, port 465.
DefaultConfig == [creds |-> FALSE, port |-> SSL_PORT]

\* The state after the module is loaded, in one of the environments C.
InitIn(C) ==
    /\ cfg \in C
    /\ latestFile = FileOf(EmptyDoc, 2)      \* ensure_files_exist
    /\ contactsFile = FileOf(EmptyDoc, 2)
    /\ nreq = 0
    /\ pc = [w \in Workers |-> "idle"]
    /\ rid = [w \in Workers |-> 0]
    /\ req = [w \in Workers |-> NoReq]
    /\ local = [w \in Workers |-> NoLocal]
    /\ resp = [w \in Workers |-> NoResp]
    /\ threads = <<>>
    /\ saved = [latest |-> EmptyDoc, contacts |-> EmptyDoc]

Init == InitIn(Configs)

\* A free worker takes the next request.
Accept(w, kind, device, data) ==
    /\ pc[w] \in {"idle", "done"}
    /\ nreq' = nreq + 1
    /\ rid' = [rid EXCEPT ![w] = nreq + 1]
    /\ req' = [req EXCEPT ![w] = [kind |-> kind, device |-> device, data |-> data]]

\* The handler returns: its response is the worker's last response.
Return(w, r) ==
    /\ pc' = [pc EXCEPT ![w] = "done"]
    /\ resp' = [resp EXCEPT ![w] = r]

\* --------------------------------------------------------------- dispatch

\* send_email_async: thread.start() on a daemon thread running send().
\* The threads are numbered by the request that started them.
StartThread(r, to) ==
    [x \in DOMAIN threads \cup {r} |-> IF x = r THEN NewThread(to) ELSE threads[x]]

Started(r) == r \in DOMAIN threads

\* A dispatch that joins the thread it started.
DispatchJoined(r) == threads[r].pc = "end"

\* send_email_async returns True once the thread is started; it does not
\* join the thread.
DispatchReturned(r) == TRUE

\* ----------------------------------------------------------- POST /ingest

\* The snapshot ingest() builds from the request body: every field is
\* data.get(field), null when the body has none; the timestamp is the body's,
\* or the server's clock when the body has none; is_emergency defaults to
\* false.
Snapshot(data, now) ==
    LET ts0 == Get(data, "timestamp", Null)
        ts == IF ~(Truthy(ts0) /\ ts0.t = "str")
              THEN Get(data, "timestamp", Num(now))
              ELSE ts0
    IN [heart_rate |-> Get(data, "heart_rate", Null),
        acc |-> [x |-> Get(data, "acc_x", Null),
                 y |-> Get(data, "acc_y", Null),
                 z |-> Get(data, "acc_z", Null)],
        gps |-> [lat |-> Get(data, "gps_lat", Null),
                 lon |-> Get(data, "gps_lon", Null)],
        timestamp |-> ts,
        stress_score |-> Get(data, "stress_score", Null),
        stress_level |-> Get(data, "stress_level", Null),
        spo2 |-> Get(data, "spo2", Null),
        temperature |-> Get(data, "temperature", Null),
        movement |-> Get(data, "movement", Null),
        emotion |-> Get(data, "emotion", Null),
        is_emergency |-> Get(data, "is_emergency", Bool(FALSE))]

\* device = str(data.get("device_id", "default"))
DeviceOf(data) == str(Get(data, "device_id", Str(DefaultDevice)))

\* A check with an exclusive threshold.
HighStressExclusive(hr) ==
    IF hr.t = "null" THEN [raised |-> FALSE, alert |-> FALSE]
    ELSE IF ~float(hr).ok THEN [raised |-> TRUE, alert |-> FALSE]
    ELSE [raised |-> FALSE, alert |-> float(hr).v > HR_THRESHOLD]

\* A check without "hr is not None": float(None) raises TypeError.
HighStressUnguarded(hr) ==
    IF ~float(hr).ok THEN [raised |-> TRUE, alert |-> FALSE]
    ELSE [raised |-> FALSE, alert |-> float(hr).v >= HR_THRESHOLD]

\* The high stress check: hr is not None and float(hr) >= HR_THRESHOLD.
\* [raised, alert]: float() raises on text that is no number.
HighStress(hr) ==
    IF hr.t = "null" THEN [raised |-> FALSE, alert |-> FALSE]
    ELSE IF ~float(hr).ok THEN [raised |-> TRUE, alert |-> FALSE]
    ELSE [raised |-> FALSE, alert |-> float(hr).v >= HR_THRESHOLD]

\* A dispatch that does not look at the list.
HasContactsAlways(contacts) == TRUE

\* An alert is mailed when the device has contacts: "if contacts:".
HasContacts(contacts) == contacts # <<>>

\* ingest(), to the end of "latest[device] = {...}": the body is read, the
\* whole latest.json is loaded and the device's entry is replaced in the copy.
ingest_begin(w, data) ==
    \E now \in Clock :
        /\ Accept(w, "ingest", DeviceOf(data), data)
        /\ local' = [local EXCEPT ![w] =
                       [doc |-> StoreSnapshot(load_json(latestFile, EmptyDoc),
                                              DeviceOf(data), Snapshot(data, now)),
                        device |-> DeviceOf(data),
                        contacts |-> <<>>,
                        alert_sent |-> FALSE]]
        /\ pc' = [pc EXCEPT ![w] = "i_save"]
        /\ UNCHANGED <<cfg, latestFile, contactsFile, resp, threads, saved>>

\* save_json(LATEST_FILE, latest): open(path, "w").
ingest_open(w) ==
    /\ pc[w] = "i_save"
    /\ latestFile' = OpenForWrite(latestFile)
    /\ pc' = [pc EXCEPT ![w] = "i_dump"]
    /\ UNCHANGED <<cfg, contactsFile, nreq, rid, req, local, resp, threads, saved>>

\* save_json(LATEST_FILE, latest): json.dump and the close of the file.
ingest_dump(w) ==
    /\ pc[w] = "i_dump"
    /\ latestFile' = WriteText(latestFile, local[w].doc, LatestLen(local[w].doc))
    /\ saved' = IF latestFile'.ok
                THEN [saved EXCEPT !.latest =
                        Put(@, local[w].device, local[w].doc[local[w].device])]
                ELSE saved
    /\ pc' = [pc EXCEPT ![w] = "i_check"]
    /\ UNCHANGED <<cfg, contactsFile, nreq, rid, req, local, resp, threads>>

\* The high stress check and the dispatch. An exception of float() is caught
\* by the handler's except clause, which answers 500.
ingest_check(w) ==
    LET hr == Get(req[w].data, "heart_rate", Null)
        hs == HighStress(hr)
        contacts == Get(load_json(contactsFile, EmptyDoc), local[w].device, <<>>)
    IN /\ pc[w] = "i_check"
       /\ IF hs.raised
          THEN /\ Return(w, [status |-> 500, ok |-> FALSE])
               /\ UNCHANGED <<local, threads>>
          ELSE IF hs.alert /\ HasContacts(contacts)
          THEN /\ threads' = StartThread(rid[w], contacts)
               /\ local' = [local EXCEPT ![w].contacts = contacts,
                                          ![w].alert_sent = TRUE]
               /\ pc' = [pc EXCEPT ![w] = "i_return"]
               /\ UNCHANGED resp
          ELSE IF hs.alert
          THEN /\ local' = [local EXCEPT ![w].contacts = contacts]
               /\ pc' = [pc EXCEPT ![w] = "i_return"]
               /\ UNCHANGED <<threads, resp>>
          ELSE /\ pc' = [pc EXCEPT ![w] = "i_return"]
               /\ UNCHANGED <<local, threads, resp>>
       /\ UNCHANGED <<cfg, latestFile, contactsFile, nreq, rid, req, saved>>

\* return jsonify({"ok": True, "alert_sent": alert_sent, ...})
ingest_return(w) ==
    /\ pc[w] = "i_return"
    /\ local[w].alert_sent => DispatchReturned(rid[w])
    /\ Return(w, [status |-> 200, ok |-> TRUE, alert_sent |-> local[w].alert_sent])
    /\ UNCHANGED <<cfg, latestFile, contactsFile, nreq, rid, req, local, threads, saved>>

\* ------------------------------------------------------ GET /live/<device>

\* latest.get(device_id, {}): the stored snapshot, or the empty object.
Lookup(doc, device) ==
    [found |-> device \in DOMAIN doc,
     snap |-> IF device \in DOMAIN doc THEN doc[device] ELSE Snapshot(EmptyDoc, 0)]

live(w, device) ==
    /\ Accept(w, "live", device, EmptyDoc)
    /\ Return(w, [status |-> 200,
                  body |-> Lookup(load_json(latestFile, EmptyDoc), device)])
    /\ local' = [local EXCEPT ![w] = NoLocal]
    /\ UNCHANGED <<cfg, latestFile, contactsFile, threads, saved>>

\* ------------------------------------------------ POST /contacts/<device>

\* A handler that does not validate the value.
IsListUnchecked(emails) == TRUE

\* isinstance(emails, list)
IsList(emails) == emails.t = "list"

\* save_contacts(), to the end of "contacts[str(device_id)] = emails": a
\* value that is no list is answered 400 before any file is touched.
save_contacts_begin(w, device, data) ==
    LET emails == Get(data, "emails", List(<<>>))
    IN /\ Accept(w, "save_contacts", device, data)
       /\ IF ~IsList(emails)
          THEN /\ Return(w, [status |-> 400, error |-> "emails must be a list"])
               /\ local' = [local EXCEPT ![w] = NoLocal]
          ELSE /\ local' = [local EXCEPT ![w] =
                              [doc |-> StoreContacts(load_json(contactsFile, EmptyDoc),
                                                     device, emails.l),
                               device |-> device,
                               contacts |-> <<>>,
                               alert_sent |-> FALSE]]
               /\ pc' = [pc EXCEPT ![w] = "c_save"]
               /\ UNCHANGED resp
       /\ UNCHANGED <<cfg, latestFile, contactsFile, threads, saved>>

\* save_json(CONTACTS_FILE, contacts): open(path, "w").
save_contacts_open(w) ==
    /\ pc[w] = "c_save"
    /\ contactsFile' = OpenForWrite(contactsFile)
    /\ pc' = [pc EXCEPT ![w] = "c_dump"]
    /\ UNCHANGED <<cfg, latestFile, nreq, rid, req, local, resp, threads, saved>>

\* save_json(CONTACTS_FILE, contacts): json.dump and the close of the file;
\* then return jsonify({"ok": True, "saved": emails}).
save_contacts_dump(w) ==
    /\ pc[w] = "c_dump"
    /\ contactsFile' =
         WriteText(contactsFile, local[w].doc, ContactsLen(local[w].doc))
    /\ saved' = IF contactsFile'.ok
                THEN [saved EXCEPT !.contacts =
                        Put(@, local[w].device,
                            Get(req[w].data, "emails", List(<<>>)).l)]
                ELSE saved
    /\ Return(w, [status |-> 200, ok |-> TRUE,
                  saved |-> Get(req[w].data, "emails", List(<<>>)).l])
    /\ UNCHANGED <<cfg, latestFile, nreq, rid, req, local, threads>>

\* ------------------------------------------------- GET /contacts/<device>

get_contacts(w, device) ==
    /\ Accept(w, "get_contacts", device, EmptyDoc)
    /\ Return(w, [status |-> 200,
                  list |-> Get(load_json(contactsFile, EmptyDoc), device, <<>>)])
    /\ local' = [local EXCEPT ![w] = NoLocal]
    /\ UNCHANGED <<cfg, latestFile, contactsFile, threads, saved>>

\* ------------------------------------------------------------ POST /notify

\* A notify() that never looks in the registry.
RecipientsFromBody(data, contacts) == Get(data, "emails", List(<<>>)).l

\* The recipients notify() resolves: the body's "emails", or the device's
\* contacts when the body has none (or null).
Recipients(data, contacts) ==
    LET emails == Get(data, "emails", NoList("null"))
    IN IF emails.t = "null" THEN Get(contacts, DeviceOf(data), <<>>)
       ELSE emails.l

notify_begin(w, data) ==
    LET emails == Recipients(data, load_json(contactsFile, EmptyDoc))
    IN /\ Accept(w, "notify", DeviceOf(data), data)
       /\ local' = [local EXCEPT ![w] = NoLocal]
       /\ IF ~HasContacts(emails)
          THEN /\ Return(w, [status |-> 400, ok |-> FALSE,
                              error |-> "No recipient emails"])
               /\ UNCHANGED threads
          ELSE /\ threads' = StartThread(nreq + 1, emails)
               /\ pc' = [pc EXCEPT ![w] = "n_return"]
               /\ UNCHANGED resp
       /\ UNCHANGED <<cfg, latestFile, contactsFile, saved>>

\* return jsonify({"ok": True, "message": "Email sending initiated"})
notify_return(w) ==
    /\ pc[w] = "n_return"
    /\ DispatchReturned(rid[w])
    /\ Return(w, [status |-> 200, ok |-> TRUE])
    /\ UNCHANGED <<cfg, latestFile, contactsFile, nreq, rid, req, local, threads, saved>>

\* -------------------------------------------------------- delivery thread

\* A delivery thread whose failure is put in the response of the request
\* that started it.
ThreadStepReporting(r, t) ==
    /\ threads' = [threads EXCEPT ![r] = t]
    /\ resp' = [w \in Workers |->
                 IF rid[w] = r /\ t.pc = "end" /\ ~t.success
                 THEN [status |-> 500, ok |-> FALSE]
                 ELSE resp[w]]
    /\ UNCHANGED <<cfg, latestFile, contactsFile, nreq, pc, rid, req, local, saved>>

\* A step of delivery thread r: it changes nothing but the thread.
ThreadStep(r, t) ==
    /\ threads' = [threads EXCEPT ![r] = t]
    /\ UNCHANGED <<cfg, latestFile, contactsFile, nreq, pc, rid, req, local, resp,
                   saved>>

\* A send() that does not look at the credentials.
send_start_unchecked(r) ==
    /\ threads[r].pc = "start"
    /\ ThreadStep(r,
         IF cfg.port = STARTTLS_PORT
         THEN [threads[r] EXCEPT !.pc = "connect", !.mode = "starttls"]
         ELSE [threads[r] EXCEPT !.pc = "connect", !.mode = "ssl"])

\* send(): without credentials nothing is sent; the port selects the
\* transport; any other port is unsupported.
send_start(r) ==
    /\ threads[r].pc = "start"
    /\ ThreadStep(r,
         IF ~cfg.creds THEN [threads[r] EXCEPT !.pc = "end"]
         ELSE IF cfg.port = SSL_PORT
         THEN [threads[r] EXCEPT !.pc = "connect", !.mode = "ssl"]
         ELSE IF cfg.port = STARTTLS_PORT
         THEN [threads[r] EXCEPT !.pc = "connect", !.mode = "starttls"]
         ELSE [threads[r] EXCEPT !.pc = "end"])

\* A connect that falls back to the other transport when the implicit-secure
\* one cannot be reached.
smtp_connect_fallback(r) ==
    /\ threads[r].pc = "connect"
    /\ \E ok \in BOOLEAN :
         ThreadStep(r,
           IF ok THEN [threads[r] EXCEPT !.pc = "ehlo", !.open = TRUE,
                                         !.log = Append(@, "connect")]
           ELSE IF threads[r].mode = "ssl"
           THEN [threads[r] EXCEPT !.mode = "starttls"]
           ELSE [threads[r] EXCEPT !.pc = "end"])

\* smtplib.SMTP_SSL(...) / smtplib.SMTP(...): the connection is made, or the
\* constructor raises (refused, timed out) and the attempt ends.
smtp_connect(r) ==
    /\ threads[r].pc = "connect"
    /\ \E ok \in BOOLEAN :
         ThreadStep(r,
           IF ok THEN [threads[r] EXCEPT !.pc = "ehlo", !.open = TRUE,
                                         !.log = Append(@, "connect")]
           ELSE [threads[r] EXCEPT !.pc = "end"])

\* A step whose failure closes the connection and connects again.
SmtpStepRetrying(r, at, next) ==
    /\ threads[r].pc = at
    /\ \E ok \in BOOLEAN :
         ThreadStep(r,
           IF ok THEN [threads[r] EXCEPT !.pc = next, !.log = Append(@, at)]
           ELSE IF Len(threads[r].log) < 6
           THEN [threads[r] EXCEPT !.pc = "connect", !.open = FALSE,
                                   !.log = Append(@, "close")]
           ELSE [threads[r] EXCEPT !.pc = "end", !.open = FALSE,
                                   !.log = Append(@, "close")])

\* A step whose failure leaves the connection open.
SmtpStepLeaking(r, at, next) ==
    /\ threads[r].pc = at
    /\ \E ok \in BOOLEAN :
         ThreadStep(r,
           IF ok THEN [threads[r] EXCEPT !.pc = next, !.log = Append(@, at)]
           ELSE [threads[r] EXCEPT !.pc = "end"])

\* A step inside the with block: it succeeds and the next step follows, or
\* it raises, the with block closes the connection and the attempt ends.
SmtpStep(r, at, next) ==
    /\ threads[r].pc = at
    /\ \E ok \in BOOLEAN :
         ThreadStep(r,
           IF ok THEN [threads[r] EXCEPT !.pc = next, !.log = Append(@, at)]
           ELSE [threads[r] EXCEPT !.pc = "end", !.open = FALSE,
                                   !.log = Append(@, "close")])

smtp_ehlo(r) ==
    SmtpStep(r, "ehlo", IF threads[r].mode = "starttls" THEN "starttls" ELSE "login")

smtp_starttls(r) == SmtpStep(r, "starttls", "login")

\* A login on a connection without timeout: the server may never answer.
smtp_login_blocking(r) ==
    /\ threads[r].pc = "login"
    /\ \E ok \in BOOLEAN :
         ThreadStep(r,
           IF ok THEN [threads[r] EXCEPT !.pc = "send", !.log = Append(@, "login")]
           ELSE [threads[r] EXCEPT !.pc = "blocked"])

smtp_login(r) == SmtpStep(r, "login", "send")

\* create_email_message and smtp.send_message(msg); leaving the with block
\* closes the connection.
smtp_send_message(r) ==
    /\ threads[r].pc = "send"
    /\ \E ok \in BOOLEAN :
         ThreadStep(r,
           IF ok /\ cfg.creds
           THEN [threads[r] EXCEPT !.pc = "end", !.open = FALSE,
                                   !.sent = TRUE, !.success = TRUE,
                                   !.log = @ \o <<"send", "close">>]
           ELSE [threads[r] EXCEPT !.pc = "end", !.open = FALSE,
                                   !.log = Append(@, "close")])

\* -------------------------------------------------------------------- next

Delivery(r) ==
    \/ send_start(r)
    \/ smtp_connect(r)
    \/ smtp_ehlo(r)
    \/ smtp_starttls(r)
    \/ smtp_login(r)
    \/ smtp_send_message(r)

\* The latest-reading store under concurrent requests: devices post readings
\* and clients read them, two requests at a time.
StoreBodies ==
    {[device_id |-> Str(d)] : d \in DeviceIds}
    \cup {[device_id |-> Str(d), heart_rate |-> Num(HR_THRESHOLD - 1)] :
            d \in DeviceIds}

StoreHandler(w) ==
    \/ \E data \in StoreBodies : ingest_begin(w, data)
    \/ ingest_open(w)
    \/ ingest_dump(w)
    \/ ingest_check(w)
    \/ ingest_return(w)
    \/ \E d \in DeviceIds : live(w, d)

NextStore ==
    /\ \E w \in Workers : StoreHandler(w)
    /\ nreq' <= StoreReqs

SpecStore == InitIn({DefaultConfig}) /\ [][NextStore]_vars

\* Alerts under concurrent requests: devices post readings while contacts
\* are saved, and the delivery threads run beside the handlers.
AlertHandler(w) ==
    \/ \E data \in IngestBodies : ingest_begin(w, data)
    \/ ingest_open(w)
    \/ ingest_dump(w)
    \/ ingest_check(w)
    \/ ingest_return(w)
    \/ \E d \in DeviceIds, data \in ContactBodies : save_contacts_begin(w, d, data)
    \/ save_contacts_open(w)
    \/ save_contacts_dump(w)

Next ==
    /\ \/ \E w \in Workers : AlertHandler(w)
       \/ \E r \in DOMAIN threads : Delivery(r)
    /\ nreq' <= AlertReqs

\* SMTP_USER and SMTP_PASS set, the port left at its default.
MailConfig == [creds |-> TRUE, port |-> SSL_PORT]

Spec == InitIn({MailConfig}) /\ [][Next]_vars

\* Requests handled one after the other by a single worker, the delivery
\* threads running beside it: readings with any of their optional fields,
\* contact lists with order and duplicates.
Optional(key, values) == {<<>>} \cup {key :> v : v \in values}

SeqBodies ==
    {[device_id |-> Str(d)] @@ hr @@ ts @@ more :
        d \in DeviceIds,
        hr \in Optional("heart_rate", {Null, Num(HR_THRESHOLD)}),
        ts \in Optional("timestamp", {Str(<<"t", "1">>)}),
        more \in {<<>>, [stress_score |-> Num(7), is_emergency |-> Bool(TRUE)]}}

SeqContactBodies ==
    ContactBodies
    \cup {[emails |-> List(<<"b@x.com", "a@x.com", "b@x.com">>)]}

SeqHandler(w) ==
    \/ \E data \in SeqBodies : ingest_begin(w, data)
    \/ ingest_open(w)
    \/ ingest_dump(w)
    \/ ingest_check(w)
    \/ ingest_return(w)
    \/ \E d \in DeviceIds : live(w, d)
    \/ \E d \in DeviceIds, data \in SeqContactBodies : save_contacts_begin(w, d, data)
    \/ save_contacts_open(w)
    \/ save_contacts_dump(w)
    \/ \E d \in DeviceIds : get_contacts(w, d)

NextSeq ==
    /\ \/ SeqHandler("w1")
       \/ \E r \in DOMAIN threads : Delivery(r)
    /\ nreq' <= SeqReqs

SpecSeq == InitIn({MailConfig}) /\ [][NextSeq]_vars

\* Dispatches under concurrent requests: one device, its contacts saved, its
\* readings at the threshold and manual notifications. A handler that has
\* begun keeps being scheduled; nothing is assumed of the delivery threads,
\* whose transport may answer late or never.
DispatchHandler(w) ==
    \/ ingest_begin(w, [device_id |-> Str(D1), heart_rate |-> Num(HR_THRESHOLD)])
    \/ ingest_open(w)
    \/ ingest_dump(w)
    \/ ingest_check(w)
    \/ ingest_return(w)
    \/ save_contacts_begin(w, D1, [emails |-> List(<<"a@x.com">>)])
    \/ save_contacts_open(w)
    \/ save_contacts_dump(w)
    \/ \E data \in {[device_id |-> Str(D1)],
                     [device_id |-> Str(D1), emails |-> List(<<"b@x.com">>)]} :
          notify_begin(w, data)
    \/ notify_return(w)

NextDispatch ==
    /\ \/ \E w \in Workers : DispatchHandler(w)
       \/ \E r \in DOMAIN threads : Delivery(r)
    /\ nreq' <= DispatchReqs

\* The steps of a handler after it has taken its request.
Proceed(w) ==
    \/ ingest_open(w)
    \/ ingest_dump(w)
    \/ ingest_check(w)
    \/ ingest_return(w)
    \/ save_contacts_open(w)
    \/ save_contacts_dump(w)
    \/ notify_return(w)

SpecDispatch ==
    /\ InitIn({MailConfig})
    /\ [][NextDispatch]_vars
    /\ \A w \in Workers : WF_vars(Proceed(w))

\* Deliveries in every environment: the process starts without credentials,
\* or with them on either supported port or another one, on a contacts.json
\* left by an earlier run that holds a list for d1; readings at the threshold
\* and manual notifications arrive two at a time.
StoredContacts == {D1 :> <<"a@x.com">>}

MailConfigs == {c \in Configs : c.creds \/ c.port = SSL_PORT}

InitMail ==
    /\ cfg \in MailConfigs
    /\ latestFile = FileOf(EmptyDoc, 2)
    /\ \E doc \in StoredContacts :
         /\ contactsFile = FileOf(doc, ContactsLen(doc))
         /\ saved = [latest |-> EmptyDoc, contacts |-> doc]
    /\ nreq = 0
    /\ pc = [w \in Workers |-> "idle"]
    /\ rid = [w \in Workers |-> 0]
    /\ req = [w \in Workers |-> NoReq]
    /\ local = [w \in Workers |-> NoLocal]
    /\ resp = [w \in Workers |-> NoResp]
    /\ threads = <<>>

MailNotifyBodies ==
    {[device_id |-> Str(D1)],
     [device_id |-> Str(D1), emails |-> List(<<"b@x.com">>)]}

MailHandler(w) ==
    \/ ingest_begin(w, [device_id |-> Str(D1), heart_rate |-> Num(HR_THRESHOLD)])
    \/ ingest_open(w)
    \/ ingest_dump(w)
    \/ ingest_check(w)
    \/ ingest_return(w)
    \/ \E data \in MailNotifyBodies : notify_begin(w, data)
    \/ notify_return(w)

NextMail ==
    /\ \/ \E w \in Workers : MailHandler(w)
       \/ \E r \in DOMAIN threads : Delivery(r)
    /\ nreq' <= MailReqs

SpecMail == InitMail /\ [][NextMail]_vars

\* The same deliveries with the requests handled one after the other. A
\* delivery thread that was started keeps being scheduled; nothing is assumed
\* of the request handlers.
NextDelivery ==
    /\ \/ MailHandler("w1")
       \/ \E r \in DOMAIN threads : Delivery(r)
    /\ nreq' <= DeliveryReqs

SpecDelivery ==
    /\ InitMail
    /\ [][NextDelivery]_vars
    /\ \A r \in 1..DeliveryReqs : WF_vars(Started(r) /\ Delivery(r))

\* Manual notifications under concurrent requests, while the contacts of d1,
\* which an earlier run left in contacts.json, are saved again and cleared.
NotifyHandler(w) ==
    \/ \E data \in NotifyBodies : notify_begin(w, data)
    \/ notify_return(w)
    \/ \E data \in {[emails |-> List(<<>>)], [emails |-> List(<<"a@x.com">>)]} :
          save_contacts_begin(w, D1, data)
    \/ save_contacts_open(w)
    \/ save_contacts_dump(w)

NextNotify ==
    /\ \/ \E w \in Workers : NotifyHandler(w)
       \/ \E r \in DOMAIN threads : Delivery(r)
    /\ nreq' <= NotifyReqs

InitNotify == InitMail /\ cfg = MailConfig

SpecNotify == InitNotify /\ [][NextNotify]_vars

\* ------------------------------------------------------------------ claims

IsIngest(w) == req[w].kind = "ingest"

\* The snapshot the ingest handler of worker w built from its request.
Built(w) == local[w].doc[local[w].device]

\* C1: when two POST /ingest requests for distinct devices are the only
\* requests of the run and both have returned, latest.json holds under each
\* device the snapshot its request built.
C1_Isolation ==
    \A w1, w2 \in Workers :
        ( /\ w1 # w2
          /\ nreq = 2
          /\ IsIngest(w1) /\ IsIngest(w2)
          /\ pc[w1] = "done" /\ pc[w2] = "done"
          /\ req[w1].device # req[w2].device )
        => /\ latestFile.ok
           /\ \A w \in {w1, w2} :
                /\ req[w].device \in DOMAIN latestFile.doc
                /\ latestFile.doc[req[w].device] = Built(w)

\* The step in which worker w answers GET /live/<d>.
LiveStep(w, d) ==
    /\ rid'[w] # rid[w]
    /\ req'[w].kind = "live"
    /\ req'[w].device = d

\* C2: once a snapshot has been saved for device d, every GET /live/<d>
\* answers a complete snapshot, never the empty object, whatever requests are
\* in progress.
C2_AtomicToReaders ==
    [][\A w \in Workers, d \in DeviceIds :
          (LiveStep(w, d) /\ d \in DOMAIN saved.latest)
          => resp'[w].body.found]_vars

Done(w) == pc[w] = "done"

\* The heart rate of the request worker w serves: null when the body has none.
HrOf(w) == Get(req[w].data, "heart_rate", Null)

\* The contact list contacts.json holds for a device: empty when it holds
\* none.
Registry(d) ==
    IF contactsFile.ok /\ d \in DOMAIN contactsFile.doc
    THEN contactsFile.doc[d]
    ELSE <<>>

\* The keys of a POST /ingest body and the field of the snapshot each goes to.
BodyKeys ==
    {"heart_rate", "acc_x", "acc_y", "acc_z", "gps_lat", "gps_lon",
     "timestamp", "stress_score", "stress_level", "spo2", "temperature",
     "movement", "emotion", "is_emergency"}

Field(snap, key) ==
    CASE key = "acc_x" -> snap.acc.x
      [] key = "acc_y" -> snap.acc.y
      [] key = "acc_z" -> snap.acc.z
      [] key = "gps_lat" -> snap.gps.lat
      [] key = "gps_lon" -> snap.gps.lon
      [] OTHER -> snap[key]

Omitted(key) == IF key = "is_emergency" THEN Bool(FALSE) ELSE Null

\* The snapshot latest.json holds for the device of worker w's request agrees
\* with the request body on the keys K: the body's value, and null (false
\* for is_emergency) for a key the body omits.
StoredFromBody(w, K) ==
    /\ latestFile.ok
    /\ req[w].device \in DOMAIN latestFile.doc
    /\ \A key \in K :
         Field(latestFile.doc[req[w].device], key)
           = Get(req[w].data, key, Omitted(key))

\* GET /live/<d> answers the snapshot of the last ingest saved for d, or the
\* empty object when there was none.
LiveAnswersLast ==
    \A w \in Workers :
        (req[w].kind = "live" /\ Done(w)) =>
          /\ resp[w].status = 200
          /\ resp[w].body.found = (req[w].device \in DOMAIN saved.latest)
          /\ resp[w].body.found =>
               resp[w].body.snap = saved.latest[req[w].device]

\* C3 as stated: after an ingest handled alone, the stored snapshot is built
\* from that request only and every field the body omits is null (false for
\* is_emergency), the timestamp included.
C3_OmittedFieldsNull ==
    /\ \A w \in Workers :
         (IsIngest(w) /\ Done(w)) => StoredFromBody(w, BodyKeys)
    /\ LiveAnswersLast

\* C3 amended: after an ingest handled alone, the stored snapshot is built
\* from that request only: every field but the timestamp is the body's value
\* or null (false for is_emergency) when omitted, the timestamp is the body's
\* or, when omitted, the server's clock; and GET /live/<d> answers the
\* snapshot of the last ingest for d, or the empty object when there was none.
C3_FullReplace ==
    /\ \A w \in Workers :
         (IsIngest(w) /\ Done(w)) =>
           /\ StoredFromBody(w, BodyKeys \ {"timestamp"})
           /\ latestFile.doc[req[w].device].timestamp
                \in (IF "timestamp" \in DOMAIN req[w].data
                     THEN {req[w].data["timestamp"]}
                     ELSE {Num(now) : now \in Clock})
    /\ LiveAnswersLast

\* A second reading for device d1 has been stored that omits the stress
\* score, the emergency flag and the timestamp, after a GET /live/d1 that
\* answered a snapshot holding all three.
C3_Witness ==
    /\ pc["w1"] = "i_return"
    /\ IsIngest("w1")
    /\ req["w1"].device = D1
    /\ DOMAIN req["w1"].data = {"device_id"}
    /\ "body" \in DOMAIN resp["w1"]
    /\ resp["w1"].body.found
    /\ resp["w1"].body.snap.stress_score = Num(7)
    /\ resp["w1"].body.snap.timestamp = Str(<<"t", "1">>)
    /\ latestFile.ok
    /\ latestFile.doc[D1].stress_score = Null
    /\ latestFile.doc[D1].is_emergency = Bool(FALSE)

\* The step in which worker w makes the high stress check.
CheckStep(w) == pc[w] = "i_check" /\ pc'[w] # "i_check"

\* C4: when an ingest with a numeric heart rate makes its high stress check
\* for a device whose contact list in contacts.json is not empty, it sets
\* alert_sent and starts a delivery thread exactly when the heart rate is at
\* least HR_THRESHOLD; and it answers 200, ok, with that alert_sent.
C4_ThresholdInclusive ==
    /\ [][\A w \in Workers :
            ( /\ CheckStep(w)
              /\ float(HrOf(w)).ok
              /\ Registry(req[w].device) # <<>> )
            => /\ local'[w].alert_sent = (float(HrOf(w)).v >= HR_THRESHOLD)
               /\ (rid[w] \in DOMAIN threads')
                    = (float(HrOf(w)).v >= HR_THRESHOLD)]_vars
    /\ [](\A w \in Workers :
            (IsIngest(w) /\ Done(w) /\ float(HrOf(w)).ok)
            => /\ resp[w].status = 200
               /\ resp[w].ok
               /\ resp[w].alert_sent = local[w].alert_sent
               /\ Started(rid[w]) = local[w].alert_sent)

\* An ingest with heart_rate = HR_THRESHOLD has answered alert_sent = true
\* and its delivery thread has been started.
C4_Witness ==
    \E w \in Workers :
        /\ IsIngest(w) /\ Done(w)
        /\ HrOf(w) = Num(HR_THRESHOLD)
        /\ resp[w].status = 200
        /\ resp[w].alert_sent
        /\ Started(rid[w])

\* C5: an ingest whose heart_rate is text that is no number answers 200,
\* ok = true, alert_sent = false, and starts no delivery thread.
C5_UnparseableIsNoAlert ==
    \A w \in Workers :
        (IsIngest(w) /\ Done(w) /\ HrOf(w).t = "str" /\ ~float(HrOf(w)).ok)
        => /\ resp[w].status = 200
           /\ resp[w].ok
           /\ ~resp[w].alert_sent
           /\ ~Started(rid[w])

\* C6: an ingest with no heart_rate, or heart_rate null, answers 200, ok =
\* true, alert_sent = false, has stored its snapshot and started no delivery
\* thread.
C6_MissingHeartRate ==
    \A w \in Workers :
        (IsIngest(w) /\ Done(w) /\ HrOf(w) = Null)
        => /\ resp[w].status = 200
           /\ resp[w].ok
           /\ ~resp[w].alert_sent
           /\ ~Started(rid[w])
           /\ StoredFromBody(w, BodyKeys \ {"timestamp"})

\* An ingest without heart_rate has returned for a device that has contacts.
C6_Witness ==
    \E w \in Workers :
        /\ IsIngest(w) /\ Done(w)
        /\ "heart_rate" \notin DOMAIN req[w].data
        /\ Registry(req[w].device) # <<>>
        /\ resp[w].status = 200

\* C7: an ingest with heart rate at least HR_THRESHOLD for a device that has
\* no contacts (no entry, or an empty list) answers 200, ok = true,
\* alert_sent = false, has stored its snapshot and has no delivery thread;
\* and a delivery thread is only ever started by the high stress check of a
\* request whose device has contacts.
C7_NoContactsNoDelivery ==
    /\ [](\A w \in Workers :
            ( /\ IsIngest(w) /\ Done(w)
              /\ float(HrOf(w)).ok /\ float(HrOf(w)).v >= HR_THRESHOLD
              /\ Registry(req[w].device) = <<>> )
            => /\ resp[w].status = 200
               /\ resp[w].ok
               /\ ~resp[w].alert_sent
               /\ ~Started(rid[w])
               /\ StoredFromBody(w, BodyKeys \ {"timestamp"}))
    /\ [][\A r \in DOMAIN threads' \ DOMAIN threads :
            \E w \in Workers :
                /\ rid[w] = r
                /\ pc[w] = "i_check"
                /\ Registry(req[w].device) # <<>>]_vars

\* An ingest with heart_rate = HR_THRESHOLD has returned for a device whose
\* contact list was saved empty.
C7_Witness ==
    \E w \in Workers :
        /\ IsIngest(w) /\ Done(w)
        /\ HrOf(w) = Num(HR_THRESHOLD)
        /\ contactsFile.ok
        /\ req[w].device \in DOMAIN contactsFile.doc
        /\ contactsFile.doc[req[w].device] = <<>>
        /\ resp[w].status = 200
        /\ ~resp[w].alert_sent

\* C8: with requests handled one after the other, GET /contacts/<d> answers
\* 200 with exactly the list of the last successful POST /contacts/<d>
\* (order and duplicates kept), or the empty list when there was none; and a
\* successful POST leaves in contacts.json, for every device, the list last
\* posted for it.
C8_ContactsRoundTrip ==
    /\ \A w \in Workers :
         (req[w].kind = "get_contacts" /\ Done(w)) =>
           /\ resp[w].status = 200
           /\ resp[w].list = Get(saved.contacts, req[w].device, <<>>)
    /\ \A w \in Workers :
         (req[w].kind = "save_contacts" /\ Done(w) /\ resp[w].status = 200) =>
           /\ contactsFile.ok
           /\ contactsFile.doc = saved.contacts
           /\ contactsFile.doc[req[w].device] = req[w].data.emails.l
           /\ resp[w].saved = req[w].data.emails.l

\* GET /contacts/d1 has answered a list with its order and its duplicate,
\* posted as the third request of the run after two other requests.
C8_Witness ==
    /\ req["w1"].kind = "get_contacts" /\ Done("w1")
    /\ req["w1"].device = D1
    /\ resp["w1"].list = <<"b@x.com", "a@x.com", "b@x.com">>
    /\ D2 \in DOMAIN saved.contacts

\* The step in which worker w takes a POST /contacts whose emails is no list.
RejectStep(w) ==
    /\ rid'[w] # rid[w]
    /\ req'[w].kind = "save_contacts"
    /\ "emails" \in DOMAIN req'[w].data
    /\ req'[w].data.emails.t # "list"

\* C9: a POST /contacts whose emails is no list is answered 400 with an
\* error message in the step that takes it, the handler is finished, and
\* contacts.json is as it was.
C9_NotAListRejected ==
    [][\A w \in Workers :
          RejectStep(w)
          => /\ pc'[w] = "done"
             /\ resp'[w].status = 400
             /\ "error" \in DOMAIN resp'[w]
             /\ contactsFile' = contactsFile]_vars

\* A POST /contacts with emails that is no list has been answered 400 while
\* contacts.json holds the list of a device.
C9_Witness ==
    \E w \in Workers :
        /\ req[w].kind = "save_contacts" /\ Done(w)
        /\ resp[w].status = 400
        /\ contactsFile.ok
        /\ DOMAIN contactsFile.doc # {}

\* Worker w has called send_email_async and not yet returned its response.
Dispatching(w) ==
    /\ pc[w] \in {"i_return", "n_return"}
    /\ Started(rid[w])

\* C10: a handler that has dispatched can return whatever its delivery thread
\* is doing, and with the handler scheduled it does return, with no step of
\* the delivery thread required.
C10_DispatchNonBlocking ==
    /\ [](\A w \in Workers :
            Dispatching(w) => ENABLED (ingest_return(w) \/ notify_return(w)))
    /\ \A w \in Workers : Dispatching(w) ~> Done(w)

\* A request has been answered while the delivery thread it started holds an
\* open connection, its transport attempt in progress.
C10_Witness ==
    \E w \in Workers :
        /\ Done(w)
        /\ req[w].kind \in {"ingest", "notify"}
        /\ resp[w].status = 200
        /\ Started(rid[w])
        /\ threads[rid[w]].open
        /\ threads[rid[w]].pc # "end"

\* The transport step named step succeeded in the attempt of thread t.
Did(t, step) == \E i \in DOMAIN t.log : t.log[i] = step

\* The response a request that dispatched gets: ok=true, and alert_sent=true
\* from POST /ingest.
Accepted(w) ==
    /\ resp[w].status = 200
    /\ resp[w].ok
    /\ IsIngest(w) => resp[w].alert_sent

\* C11: a POST /ingest or POST /notify request that started a delivery has
\* the accepted response once it has returned, whatever state the delivery
\* is in or ended in, and a step of a delivery thread changes no response
\* and neither store.
C11_FailuresAbsorbed ==
    [][/\ \A w \in Workers :
            (pc'[w] = "done" /\ rid'[w] \in DOMAIN threads') => Accepted(w)'
       /\ (\E r \in DOMAIN threads : threads'[r] # threads[r])
            => UNCHANGED <<latestFile, contactsFile, saved, resp, pc>>]_vars

\* An ingest and a notify have both returned; the delivery of the first
\* failed after it had connected, the delivery of the second succeeded.
C11_Witness ==
    \E w1, w2 \in Workers :
        /\ IsIngest(w1) /\ Done(w1) /\ Started(rid[w1])
        /\ threads[rid[w1]].pc = "end"
        /\ ~threads[rid[w1]].success
        /\ Did(threads[rid[w1]], "connect")
        /\ req[w2].kind = "notify" /\ Done(w2) /\ Started(rid[w2])
        /\ threads[rid[w2]].success
        /\ Accepted(w1) /\ Accepted(w2)

\* C12: when SMTP_USER or SMTP_PASS is unset, no delivery thread opens a
\* connection or transmits a message, and every request that dispatched and
\* has returned has a success response.
C12_NoCredentialsNoOp ==
    ~cfg.creds =>
      /\ \A r \in DOMAIN threads :
           /\ threads[r].log = <<>>
           /\ threads[r].mode = "none"
           /\ ~threads[r].open
           /\ ~threads[r].sent
      /\ \A w \in Workers :
           (Done(w) /\ Started(rid[w])) => (resp[w].status = 200 /\ resp[w].ok)

\* Without credentials, an ingest and a notify have both returned success and
\* the delivery threads they started have both ended.
C12_Witness ==
    /\ ~cfg.creds
    /\ \E w1, w2 \in Workers :
         /\ IsIngest(w1) /\ req[w2].kind = "notify"
         /\ \A w \in {w1, w2} :
              /\ Done(w) /\ Started(rid[w])
              /\ threads[rid[w]].pc = "end"
              /\ resp[w].status = 200

\* The step in which worker w takes a POST /notify request.
NotifyStep(w) == rid'[w] # rid[w] /\ req'[w].kind = "notify"

\* The recipients of a POST /notify body: its emails, or the list
\* contacts.json holds for its device when it has no emails (or null).
Resolved(data) ==
    IF "emails" \in DOMAIN data /\ data["emails"].t # "null"
    THEN data["emails"].l
    ELSE Registry(str(Get(data, "device_id", Str(DefaultDevice))))

\* C13: a POST /notify whose resolved recipients are empty returns 400 with
\* ok=false and starts no thread; any other starts exactly one thread, to
\* the resolved recipients, and then returns 200 with ok=true; no step of
\* the handler changes latest.json or contacts.json.
C13_NotifyResolves ==
    [][\A w \in Workers :
         /\ NotifyStep(w) =>
              LET to == Resolved(req'[w].data)
                  r == rid'[w]
              IN /\ UNCHANGED <<latestFile, contactsFile>>
                 /\ (to = <<>>) =>
                      /\ pc'[w] = "done"
                      /\ resp'[w].status = 400
                      /\ ~resp'[w].ok
                      /\ threads' = threads
                 /\ (to # <<>>) =>
                      /\ pc'[w] # "done"
                      /\ r \notin DOMAIN threads
                      /\ DOMAIN threads' = DOMAIN threads \cup {r}
                      /\ threads'[r].to = to
                      /\ threads'[r].pc = "start"
                      /\ \A x \in DOMAIN threads : threads'[x] = threads[x]
         /\ (req[w].kind = "notify" /\ pc[w] # "done" /\ pc'[w] = "done"
               /\ rid'[w] = rid[w]) =>
              /\ resp'[w].status = 200
              /\ resp'[w].ok
              /\ UNCHANGED <<latestFile, contactsFile, threads>>]_vars

\* A notify for d1 without emails has returned 200 after it started a
\* thread to the saved contacts of d1, and a notify with an empty emails
\* list has returned 400.
C13_Witness ==
    \E w1, w2 \in Workers :
        /\ req[w1].kind = "notify" /\ Done(w1)
        /\ "emails" \notin DOMAIN req[w1].data
        /\ resp[w1].status = 200
        /\ Started(rid[w1])
        /\ threads[rid[w1]].to = <<"a@x.com">>
        /\ req[w2].kind = "notify" /\ Done(w2)
        /\ "emails" \in DOMAIN req[w2].data
        /\ resp[w2].status = 400
        /\ ~Started(rid[w2])

\* The step in which worker w takes a request that writes a store: a POST
\* /ingest, or a POST /contacts/<d> whose emails are a list.
MutatingArrival(w) ==
    /\ rid'[w] # rid[w]
    /\ \/ req'[w].kind = "ingest"
       \/ /\ req'[w].kind = "save_contacts"
          /\ Get(req'[w].data, "emails", List(<<>>)).t = "list"

\* The file behind the store a request writes.
StoreOf(kind) == IF kind = "ingest" THEN latestFile ELSE contactsFile

\* What completed saves put in the store a request writes.
SavedOf(kind) == IF kind = "ingest" THEN saved.latest ELSE saved.contacts

\* C14: a mutating request that arrives when the file of its store does not
\* decode, after entries were saved in that store, is answered with a 5xx
\* status and goes no further: it builds no document, without those entries,
\* to save over the file.
C14_CorruptionReported ==
    [][\A w \in Workers :
         ( /\ MutatingArrival(w)
           /\ ~StoreOf(req'[w].kind).ok
           /\ DOMAIN SavedOf(req'[w].kind) # {} )
         => (pc'[w] = "done" /\ resp'[w].status >= 500)]_vars

\* C15: when two POST /contacts requests for distinct devices, each with a
\* list, are the only requests of the run and both have returned ok,
\* contacts.json holds under each device the list its request posted.
C15_RegistryGuarded ==
    \A w1, w2 \in Workers :
        ( /\ w1 # w2
          /\ nreq = 2
          /\ req[w1].kind = "save_contacts" /\ req[w2].kind = "save_contacts"
          /\ Done(w1) /\ Done(w2)
          /\ resp[w1].status = 200 /\ resp[w2].status = 200
          /\ req[w1].device # req[w2].device )
        => \A w \in {w1, w2} :
             Registry(req[w].device) = Get(req[w].data, "emails", List(<<>>)).l

\* The transport steps of a delivery in each mode, in order.
Canon(mode) ==
    IF mode = "starttls"
    THEN <<"connect", "ehlo", "starttls", "login", "send">>
    ELSE <<"connect", "ehlo", "login", "send">>

IsPrefix(p, q) == Len(p) <= Len(q) /\ \A i \in DOMAIN p : p[i] = q[i]

\* The steps that succeeded in the attempt of thread t, the close left out.
Steps(t) == SelectSeq(t.log, LAMBDA x : x # "close")

\* C16: in every delivery attempt the steps that succeeded are the first
\* steps of Connect, Greet, (UpgradeToSecure in the STARTTLS mode,)
\* Authenticate, Transmit, in that order; the connection is open from the
\* Connect to the one Close, which is the last event of the attempt; and an
\* attempt that connected has closed when it ends.
C16_StepOrder ==
    \A r \in DOMAIN threads :
        LET t == threads[r]
        IN /\ IsPrefix(Steps(t), Canon(t.mode))
           /\ (t.mode = "none") => (t.log = <<>>)
           /\ Len(t.log) <= Len(Steps(t)) + 1
           /\ Did(t, "close") => (t.log[Len(t.log)] = "close" /\ t.pc = "end")
           /\ t.open = (Did(t, "connect") /\ ~Did(t, "close"))
           /\ (t.pc = "end" /\ Did(t, "connect")) => Did(t, "close")
           /\ t.sent = Did(t, "send")

\* In the STARTTLS mode one delivery has ended after all its steps, and
\* another has ended closed after its login failed.
C16_Witness ==
    \E r1, r2 \in DOMAIN threads :
        /\ threads[r1].mode = "starttls"
        /\ threads[r1].log =
             <<"connect", "ehlo", "starttls", "login", "send", "close">>
        /\ threads[r2].pc = "end"
        /\ threads[r2].log = <<"connect", "ehlo", "starttls", "close">>

\* The transport SMTP_PORT selects: none for a port that is neither 465 nor
\* 587.
ModeOf(port) ==
    IF port = SSL_PORT THEN "ssl"
    ELSE IF port = STARTTLS_PORT THEN "starttls"
    ELSE "none"

\* The delivery thread r has gone past the choice of its transport.
Chose(r) == threads[r].pc # "start"

\* C17 as stated: with credentials present, every delivery attempt uses one
\* of the two transports, the one its port selects, and keeps it.
C17_ExactlyOneMode ==
    /\ [](cfg.creds =>
            \A r \in DOMAIN threads :
                Chose(r) => /\ threads[r].mode \in {"ssl", "starttls"}
                            /\ threads[r].mode = ModeOf(cfg.port))
    /\ [][\A r \in DOMAIN threads :
            threads[r].mode # "none" => threads'[r].mode = threads[r].mode]_vars

\* C17 amended: with credentials present, a delivery attempt uses the
\* transport SMTP_PORT selects, implicit-secure for 465 and
\* plaintext-then-upgrade for 587, and keeps it to its end; for any other
\* port it uses no transport at all: it connects nowhere and sends nothing.
C17_ModeByPort ==
    /\ [](cfg.creds =>
            \A r \in DOMAIN threads :
                Chose(r) =>
                  /\ threads[r].mode = ModeOf(cfg.port)
                  /\ IsPrefix(Steps(threads[r]), Canon(ModeOf(cfg.port)))
                  /\ (ModeOf(cfg.port) = "none") =>
                       (threads[r].log = <<>> /\ threads[r].pc = "end"))
    /\ [][\A r \in DOMAIN threads :
            threads[r].mode # "none" => threads'[r].mode = threads[r].mode]_vars

\* On port 587 one delivery failed to connect and ended, and another went
\* through the upgrade and sent its message.
C17_Witness ==
    /\ cfg.creds
    /\ cfg.port = STARTTLS_PORT
    /\ \E r1, r2 \in DOMAIN threads :
         /\ threads[r1].pc = "end"
         /\ threads[r1].log = <<>>
         /\ threads[r1].mode = "starttls"
         /\ threads[r2].success
         /\ Did(threads[r2], "starttls")

\* How many times the step named step succeeded in the attempt of thread t.
Count(t, step) == Len(SelectSeq(t.log, LAMBDA x : x = step))

\* C18: a step of a handler starts at most one delivery thread, which is
\* the one thread of the request it serves; a thread connects at most once
\* and transmits at most once; after a step failed it is at its end, with no
\* connection made when the connect itself failed; and a thread at its end
\* takes no further step.
C18_NoRetry ==
    /\ [](/\ DOMAIN threads \subseteq 1..nreq
          /\ \A r \in DOMAIN threads :
               /\ Count(threads[r], "connect") <= 1
               /\ Count(threads[r], "send") <= 1
               /\ Count(threads[r], "close") <= 1
               /\ (Did(threads[r], "close") /\ ~threads[r].success)
                    => threads[r].pc = "end")
    /\ [][/\ \A r \in DOMAIN threads :
              /\ r \in DOMAIN threads'
              /\ threads[r].pc = "end" => threads'[r] = threads[r]
              /\ (threads[r].pc = "connect" /\ threads'[r].pc = "end")
                   => threads'[r].log = <<>>
          /\ Cardinality(DOMAIN threads') <= Cardinality(DOMAIN threads) + 1
          /\ \A r \in DOMAIN threads' \ DOMAIN threads :
              /\ \E w \in Workers : rid'[w] = r /\ pc'[w] # "done"
              /\ threads'[r].pc = "start"
              /\ threads'[r].log = <<>>]_vars

\* One delivery has ended after its login failed, with its one connection
\* closed and nothing sent, while another request has dispatched since.
C18_Witness ==
    \E r1, r2 \in DOMAIN threads :
        /\ r1 < r2
        /\ threads[r1].pc = "end"
        /\ threads[r1].log = <<"connect", "ehlo", "close">>
        /\ ~threads[r1].sent
        /\ threads[r2].pc # "start"

\* The delivery thread of request r is at its end.
Ended(r) == Started(r) /\ threads[r].pc = "end"

\* C19: every delivery thread that was started reaches its end, when it
\* keeps being scheduled and each transport step succeeds or fails.
C19_DeliveryEnds ==
    \A r \in 1..DeliveryReqs : Started(r) ~> Ended(r)

\* Two deliveries have ended: one after its greeting failed, one after it
\* sent its message.
C19_Witness ==
    \E r1, r2 \in DOMAIN threads :
        /\ Ended(r1) /\ Ended(r2)
        /\ threads[r1].log = <<"connect", "close">>
        /\ threads[r2].sent

\* The delivery attempts that hold an open transport connection.
Connected == {r \in DOMAIN threads : threads[r].open}

\* C20: the delivery attempts in progress at the same time, and so the open
\* transport connections, are bounded by a number that does not grow with
\* the requests: they stay fewer than the requests of a run.
C20_DispatchBounded == Cardinality(Connected) < MailReqs


====
